---- MODULE Spec2Model ----
(***************************************************************************)
(* Model of chains/src/bitcoin/transaction/mod.rs: the typed transaction   *)
(* wrapper Tx<T> around a partially signed transaction (PSBT), the output  *)
(* linkage get_consumable_output, the borrowed input reference TxInRef and *)
(* the BIP-143 sighash / signing helpers.                                  *)
(*                                                                         *)
(* Indices are 0-based as in the source; At(s, i) reads a Vec.             *)
(* sha256d is modelled as a collision-free symbolic hash of its preimage.  *)
(***************************************************************************)
EXTENDS Integers, Sequences, FiniteSets, TLC

VARIABLES
    kind,        \* the type parameter T of Tx<T> (PhantomData), fixed per instance
    psbt,        \* Tx::psbt, the partially signed transaction container
    finalized,   \* history: TRUE once finalize() has returned Ok on this instance
    snapshot,    \* the value last returned by to_partial(), owned by the caller
    transaction, \* the transaction borrowed by TxInRef / the sighash engine
    txinref,     \* the live TxInRef, if one was constructed
    sigRaw,      \* sign_input's local `sig` right after context.sign (line 224)
    halted,      \* TRUE once an assertion has aborted the thread
    op,          \* the last operation called, with its arguments
    ret          \* what that operation returned

vars == <<kind, psbt, finalized, snapshot, transaction, txinref, sigRaw, halted, op, ret>>
txVars == <<kind, psbt, finalized, snapshot>>
signVars == <<transaction, txinref, sigRaw, halted>>

---------------------------------------------------------------------------
(* Bounds *)

\* largest number of outputs of a skeleton drawn at construction
MaxOutputs == 3
\* largest number of inputs of a transaction handed to TxInRef::new
MaxInputs == 2
\* largest spent value handed to signature_hash / sign_input
MaxValue == 1
\* stand-in for the secp256k1 group order (scalars are 1 .. CurveOrder-1)
CurveOrder == 7

---------------------------------------------------------------------------
(* Option and Result *)

None == [some |-> FALSE]
Some(x) == [some |-> TRUE, val |-> x]
Ok(x) == [ok |-> TRUE, val |-> x]
Err(e) == [ok |-> FALSE, err |-> e]
Unit == "()"
\* a panic: the call does not return
Abort == [ok |-> FALSE, panic |-> TRUE]

At(s, i) == s[i + 1]

\* the variants of enum Error that the modelled operations produce
Error == {"MultiUTXOUnsuported", "MissingWitnessScript", "MissingWitnessUTXO",
          "MissingSignature", "MissingSigHashType", "PublicKeyNotFound"}

---------------------------------------------------------------------------
(* bitcoin::blockdata::transaction *)

\* OutPoint::null(): all-zero txid, vout = u32::MAX (all ones, written -1)
NullOutPoint == [txid |-> <<"zero", 0>>, vout |-> -1]
PrevOutPoint(i) == [txid |-> <<"prev", i>>, vout |-> 0]

TxIn(prev, seqno) ==
    [previous_output |-> prev, script_sig |-> <<>>, sequence |-> seqno, witness |-> <<>>]

TxOut(i) == [value |-> i + 1, script_pubkey |-> <<"spk", i>>]

\* Transaction::is_coin_base: exactly one input, spending the null out-point
is_coin_base(tx) ==
    /\ Len(tx.input) = 1
    /\ At(tx.input, 0).previous_output = NullOutPoint

\* Transaction::txid: the hash of the serialization without witness data
Sha256d(data) == <<"sha256d", data>>
txid(tx) ==
    Sha256d([version |-> tx.version,
             input |-> [i \in DOMAIN tx.input |->
                          [previous_output |-> tx.input[i].previous_output,
                           script_sig |-> tx.input[i].script_sig,
                           sequence |-> tx.input[i].sequence]],
             output |-> tx.output,
             lock_time |-> tx.lock_time])

---------------------------------------------------------------------------
(* bitcoin::util::psbt *)

Kinds == {"Funding", "Lock", "Buy", "Cancel", "Punish", "Refund"}

\* the public keys, in canonical order, that the script spent by each kind names
ScriptKeys(k) ==
    CASE k = "Funding" -> <<>>
      [] k = "Punish" -> <<"alice">>
      [] OTHER -> <<"alice", "bob">>

WitnessScript(k) == [script |-> "lock", keys |-> ScriptKeys(k)]

\* anyone who may contribute a signature, and the distinct signatures of one key
Signers == {"alice", "bob", "mallory"}
SigVariants == {"sigA", "sigB"}

EmptyMap == [k \in {} |-> None]
Insert(m, k, v) == [x \in DOMAIN m \cup {k} |-> IF x = k THEN v ELSE m[x]]

Range(s) == {s[i] : i \in DOMAIN s}

\* the unsigned skeleton of a typed transaction: one input, nOut outputs
Skeleton(coinbase, nOut) ==
    [version |-> 2,
     lock_time |-> 0,
     input |-> <<TxIn(IF coinbase THEN NullOutPoint ELSE PrevOutPoint(0), 0)>>,
     output |-> [i \in 1..nOut |-> TxOut(i - 1)]]

\* PartiallySignedTransaction::from_unsigned_tx plus the metadata a constructor records
NewPsbt(k, coinbase, nOut, inUtxo, inScript, inSighash, outScript) ==
    [global |-> [unsigned_tx |-> Skeleton(coinbase, nOut)],
     inputs |-> <<[witness_utxo |-> IF inUtxo THEN Some(TxOut(0)) ELSE None,
                   witness_script |-> IF inScript THEN Some(WitnessScript(k)) ELSE None,
                   sighash_type |-> IF inSighash THEN Some("ALL") ELSE None,
                   partial_sigs |-> EmptyMap,
                   final_script_sig |-> None,
                   final_script_witness |-> None]>>,
     outputs |-> [i \in 1..nOut |->
                    [witness_script |-> IF i = 1 /\ outScript
                                        THEN Some([script |-> "out", keys |-> <<"alice", "bob">>])
                                        ELSE None]]]

\* PartiallySignedTransaction::extract_tx: the skeleton with every input's final
\* script_sig and witness filled in, empty where the container holds none
extract_tx(p) ==
    [p.global.unsigned_tx EXCEPT
        !.input = [i \in DOMAIN p.global.unsigned_tx.input |->
                     [p.global.unsigned_tx.input[i] EXCEPT
                        !.script_sig = IF p.inputs[i].final_script_sig.some
                                       THEN p.inputs[i].final_script_sig.val ELSE <<>>,
                        !.witness = IF p.inputs[i].final_script_witness.some
                                    THEN p.inputs[i].final_script_witness.val ELSE <<>>]]]

---------------------------------------------------------------------------
(* Sub-transaction finalizers: SubTransaction::finalize for the six kinds *)

\* the witness stack for the single input: the signatures in the script's key
\* order, followed by the script
WitnessStack(script, sigs) ==
    [i \in 1..Len(script.keys) |-> sigs[script.keys[i]]] \o <<script>>

SingleOutputShape(tx) ==
    \/ Len(tx.output) = 1
    \/ Len(tx.output) = 2 /\ is_coin_base(tx)

\* validate, then write: the container is returned unchanged on every error
SubTransaction_finalize(k, p) ==
    LET tx == p.global.unsigned_tx
        in0 == At(p.inputs, 0)
        sigs == in0.partial_sigs
    IN  IF ~SingleOutputShape(tx)
          THEN [res |-> Err("MultiUTXOUnsuported"), psbt |-> p]
        ELSE IF k = "Funding"
          THEN IF At(p.outputs, 0).witness_script.some
                 THEN [res |-> Ok(Unit), psbt |-> p]
                 ELSE [res |-> Err("MissingWitnessScript"), psbt |-> p]
        ELSE IF ~in0.witness_script.some
          THEN [res |-> Err("MissingWitnessScript"), psbt |-> p]
        ELSE IF ~in0.witness_utxo.some
          THEN [res |-> Err("MissingWitnessUTXO"), psbt |-> p]
        ELSE IF Cardinality(DOMAIN sigs) < Len(in0.witness_script.val.keys)
          THEN [res |-> Err("MissingSignature"), psbt |-> p]
        ELSE IF ~in0.sighash_type.some
          THEN [res |-> Err("MissingSigHashType"), psbt |-> p]
        ELSE IF ~(DOMAIN sigs \subseteq Range(in0.witness_script.val.keys))
          THEN [res |-> Err("PublicKeyNotFound"), psbt |-> p]
        ELSE [res |-> Ok(Unit),
              psbt |-> [p EXCEPT ![ "inputs"][1].final_script_witness =
                                     Some(WitnessStack(in0.witness_script.val, sigs))]]

\* a party's signature contribution: partial_sigs.insert(pubkey, signature)
add_signature(p, key, sig) ==
    [p EXCEPT !["inputs"][1].partial_sigs = Insert(@, key, <<key, sig>>)]

---------------------------------------------------------------------------
(* Tx<T>: the typed transaction wrapper *)

\* Transaction::to_partial
to_partial_absent(p) == IF At(p.inputs, 0).final_script_witness.some THEN None ELSE Some(p)
to_partial(p) == Some(p)

\* Finalizable::finalize: dispatch on T with &mut self.psbt
finalize(k, p) == SubTransaction_finalize(k, p)

\* Broadcastable::extract: self.psbt.clone().extract_tx(); self is left as it was
extract_in_place(p) ==
    [self |-> [p EXCEPT !.global.unsigned_tx = extract_tx(p)], tx |-> extract_tx(p)]
extract(p) == [self |-> p, tx |-> extract_tx(p)]

\* Linkable::get_consumable_output
MetadataOutput(p, i) ==
    [out_point |-> [txid |-> txid(p.global.unsigned_tx), vout |-> i],
     tx_out |-> At(p.global.unsigned_tx.output, i),
     script_pubkey |-> At(p.outputs, i).witness_script]

get_consumable_output_any2(p) ==
    LET n == Len(p.global.unsigned_tx.output)
    IN  CASE n = 1 -> Ok(MetadataOutput(p, 0))
          [] n = 2 -> Ok(MetadataOutput(p, 0))
          [] OTHER -> Err("MultiUTXOUnsuported")

get_consumable_output_last(p) ==
    LET n == Len(p.global.unsigned_tx.output)
    IN  CASE n = 1 -> Ok(MetadataOutput(p, n - 1))
          [] n = 2 -> IF ~is_coin_base(p.global.unsigned_tx)
                        THEN Err("MultiUTXOUnsuported")
                        ELSE Ok(MetadataOutput(p, n - 1))
          [] OTHER -> Err("MultiUTXOUnsuported")

get_consumable_output(p) ==
    LET n == Len(p.global.unsigned_tx.output)
    IN  CASE n = 1 -> Ok(MetadataOutput(p, 0))
          [] n = 2 -> IF ~is_coin_base(p.global.unsigned_tx)
                        THEN Err("MultiUTXOUnsuported")
                        ELSE Ok(MetadataOutput(p, 0))
          [] OTHER -> Err("MultiUTXOUnsuported")

---------------------------------------------------------------------------
(* The typed transaction as a state machine *)

IdleSign ==
    /\ transaction = Skeleton(FALSE, 1)
    /\ txinref = None
    /\ sigRaw = None
    /\ halted = FALSE

Init ==
    /\ kind \in Kinds
    /\ \E coinbase \in BOOLEAN, nOut \in 0..MaxOutputs,
          inUtxo \in BOOLEAN, inScript \in BOOLEAN, inSighash \in BOOLEAN,
          outScript \in BOOLEAN :
            /\ nOut = 0 => outScript = FALSE
            /\ psbt = NewPsbt(kind, coinbase, nOut, inUtxo, inScript, inSighash, outScript)
    /\ finalized = FALSE
    /\ snapshot = None
    /\ IdleSign
    /\ op = [name |-> "new"]
    /\ ret = Ok(Unit)

AddSignature ==
    \E key \in Signers, sig \in SigVariants :
        /\ psbt' = add_signature(psbt, key, sig)
        /\ op' = [name |-> "add_signature"]
        /\ ret' = Ok(Unit)
        /\ UNCHANGED <<kind, finalized, snapshot, signVars>>

ToPartial ==
    /\ ret' = to_partial(psbt)
    /\ snapshot' = ret'
    /\ op' = [name |-> "to_partial"]
    /\ UNCHANGED <<kind, psbt, finalized, signVars>>

Finalize ==
    LET r == finalize(kind, psbt)
    IN  /\ psbt' = r.psbt
        /\ ret' = r.res
        /\ finalized' = (finalized \/ r.res.ok)
        /\ op' = [name |-> "finalize"]
        /\ UNCHANGED <<kind, snapshot, signVars>>

Extract ==
    LET r == extract(psbt)
    IN  /\ psbt' = r.self
        /\ ret' = Ok(r.tx)
        /\ op' = [name |-> "extract"]
        /\ UNCHANGED <<kind, finalized, snapshot, signVars>>

GetConsumableOutput ==
    /\ ret' = get_consumable_output(psbt)
    /\ op' = [name |-> "get_consumable_output"]
    /\ UNCHANGED <<kind, psbt, finalized, snapshot, signVars>>

Next ==
    \/ AddSignature
    \/ ToPartial
    \/ Finalize
    \/ Extract
    \/ GetConsumableOutput

Spec == Init /\ [][Next]_vars

---------------------------------------------------------------------------
(* TxInRef: a borrowed reference to a transaction input *)

\* TxInRef::new: assert!(transaction.input.len() > index)
TxInRef_new_inclusive(tx, index) ==
    IF Len(tx.input) >= index
      THEN [panic |-> FALSE, ref |-> [transaction |-> tx, index |-> index]]
      ELSE [panic |-> TRUE]
TxInRef_new(tx, index) ==
    IF Len(tx.input) > index
      THEN [panic |-> FALSE, ref |-> [transaction |-> tx, index |-> index]]
      ELSE [panic |-> TRUE]

\* TxInRef::input: &self.transaction.input[self.index] (indexing panics out of range)
TxInRef_input(r) ==
    IF r.index < Len(r.transaction.input)
      THEN [panic |-> FALSE, val |-> At(r.transaction.input, r.index)]
      ELSE [panic |-> TRUE]

\* TxInRef::index
TxInRef_index(r) == r.index

\* TxInRef::transaction
TxInRef_transaction(r) == r.transaction

---------------------------------------------------------------------------
(* Sighash engine *)

SigHashTypes == {"All", "None", "Single",
                 "AllPlusAnyoneCanPay", "NonePlusAnyoneCanPay", "SinglePlusAnyoneCanPay"}
Scripts == {"scriptA", "scriptB"}
SecretKeys == {"skA", "skB"}

\* SigHashType::split_anyonecanpay_flag
split_anyonecanpay_flag(t) ==
    CASE t = "AllPlusAnyoneCanPay" -> <<"All", TRUE>>
      [] t = "NonePlusAnyoneCanPay" -> <<"None", TRUE>>
      [] t = "SinglePlusAnyoneCanPay" -> <<"Single", TRUE>>
      [] OTHER -> <<t, FALSE>>

ZeroHash == <<"zero", 0>>

\* SigHashCache::signature_hash: the BIP-143 digest of the signing data
bip143_signature_hash(tx, input_index, script_code, value, sighash_type) ==
    LET sighash == split_anyonecanpay_flag(sighash_type)[1]
        anyone_can_pay == split_anyonecanpay_flag(sighash_type)[2]
        txin == At(tx.input, input_index)
        hash_prevouts ==
            IF ~anyone_can_pay
              THEN Sha256d([i \in DOMAIN tx.input |-> tx.input[i].previous_output])
              ELSE ZeroHash
        hash_sequence ==
            IF ~anyone_can_pay /\ sighash # "Single" /\ sighash # "None"
              THEN Sha256d([i \in DOMAIN tx.input |-> tx.input[i].sequence])
              ELSE ZeroHash
        hash_outputs ==
            IF sighash # "Single" /\ sighash # "None"
              THEN Sha256d(tx.output)
            ELSE IF sighash = "Single" /\ input_index < Len(tx.output)
              THEN Sha256d(At(tx.output, input_index))
            ELSE ZeroHash
    IN  Sha256d([version |-> tx.version,
                 hash_prevouts |-> hash_prevouts,
                 hash_sequence |-> hash_sequence,
                 previous_output |-> txin.previous_output,
                 script_code |-> script_code,
                 value |-> value,
                 sequence |-> txin.sequence,
                 hash_outputs |-> hash_outputs,
                 lock_time |-> tx.lock_time,
                 sighash_type |-> sighash_type])

\* signature_hash(txin, script, value, sighash_type)
signature_hash_fixed_value(txin, script, value, sighash_type) ==
    bip143_signature_hash(txin.transaction, txin.index, script, 0, sighash_type)
signature_hash(txin, script, value, sighash_type) ==
    bip143_signature_hash(txin.transaction, txin.index, script, value, sighash_type)

\* a sha256d digest is 32 bytes long
DigestLen(d) == 32

\* Message::from_slice: only a 32-byte slice is a message
Message_from_slice(d) ==
    IF DigestLen(d) = 32 THEN Ok(d) ELSE Err("InvalidMessage")

\* the signatures Secp256k1::sign may hand back: r and s are non-zero scalars
\* (for r the two extreme scalars stand for all)
Signatures == [r : {1, CurveOrder - 1}, s : 1..(CurveOrder - 1)]

\* Signature::normalize_s: s above half the group order is replaced by order - s
normalize_s(sig) ==
    IF sig.s > CurveOrder \div 2 THEN [sig EXCEPT !.s = CurveOrder - sig.s] ELSE sig

\* sign_input; `signed` is what context.sign(&msg, secret_key) produced
sign_input_unnormalized(txin, script, value, sighash_type, secret_key, signed) ==
    LET sighash == signature_hash(txin, script, value, sighash_type)
        msg == Message_from_slice(sighash)
    IN  IF ~msg.ok THEN msg ELSE Ok(signed)
sign_input(txin, script, value, sighash_type, secret_key, signed) ==
    LET sighash == signature_hash(txin, script, value, sighash_type)
        msg == Message_from_slice(sighash)
    IN  IF ~msg.ok THEN msg ELSE Ok(normalize_s(signed))

---------------------------------------------------------------------------
(* The sighash engine and input reference as a state machine *)

\* a transaction with nIn inputs and nOut outputs
MkTx(nIn, nOut) ==
    [version |-> 2,
     lock_time |-> 0,
     input |-> [i \in 1..nIn |-> TxIn(PrevOutPoint(i - 1), i)],
     output |-> [i \in 1..nOut |-> TxOut(i - 1)]]

InitSign ==
    /\ kind = "Lock"
    /\ psbt = NewPsbt("Lock", FALSE, 1, TRUE, TRUE, TRUE, TRUE)
    /\ finalized = FALSE
    /\ snapshot = None
    /\ \E nIn \in 0..MaxInputs, nOut \in 0..MaxOutputs : transaction = MkTx(nIn, nOut)
    /\ txinref = None
    /\ sigRaw = None
    /\ halted = FALSE
    /\ op = [name |-> "new"]
    /\ ret = Ok(Unit)

NewTxInRef ==
    /\ ~halted
    /\ \E index \in 0..MaxInputs :
        LET r == TxInRef_new(transaction, index)
        IN  /\ op' = [name |-> "TxInRef::new", index |-> index]
            /\ halted' = r.panic
            /\ txinref' = IF r.panic THEN txinref ELSE Some(r.ref)
            /\ ret' = IF r.panic THEN Abort ELSE Ok(r.ref)
    /\ UNCHANGED <<txVars, transaction, sigRaw>>

Input ==
    /\ ~halted
    /\ txinref.some
    /\ LET r == TxInRef_input(txinref.val)
       IN  /\ halted' = r.panic
           /\ ret' = IF r.panic THEN Abort ELSE Ok(r.val)
    /\ op' = [name |-> "input"]
    /\ UNCHANGED <<txVars, transaction, txinref, sigRaw>>

Index ==
    /\ ~halted
    /\ txinref.some
    /\ ret' = Ok(TxInRef_index(txinref.val))
    /\ op' = [name |-> "index"]
    /\ UNCHANGED <<txVars, signVars>>

TransactionOf ==
    /\ ~halted
    /\ txinref.some
    /\ ret' = Ok(TxInRef_transaction(txinref.val))
    /\ op' = [name |-> "transaction"]
    /\ UNCHANGED <<txVars, signVars>>

SignatureHash ==
    /\ ~halted
    /\ txinref.some
    /\ \E script \in Scripts, value \in 0..MaxValue, sighash_type \in SigHashTypes :
        /\ ret' = Ok(signature_hash(txinref.val, script, value, sighash_type))
        /\ op' = [name |-> "signature_hash", script |-> script, value |-> value,
                  sighash_type |-> sighash_type]
    /\ UNCHANGED <<txVars, signVars>>

SignInput ==
    /\ ~halted
    /\ txinref.some
    /\ \E script \in Scripts, value \in 0..MaxValue, sighash_type \in SigHashTypes,
          secret_key \in SecretKeys, signed \in Signatures :
        /\ sigRaw' = Some(signed)
        /\ ret' = sign_input(txinref.val, script, value, sighash_type, secret_key, signed)
        /\ op' = [name |-> "sign_input"]
    /\ UNCHANGED <<txVars, transaction, txinref, halted>>

NextSign ==
    \/ NewTxInRef
    \/ Input
    \/ Index
    \/ TransactionOf
    \/ SignatureHash
    \/ SignInput

SpecSign == InitSign /\ [][NextSign]_vars

---------------------------------------------------------------------------
(* Properties of the typed transaction wrapper (checked under Spec) *)

UnsignedTx == psbt.global.unsigned_tx
NumOutputs == Len(UnsignedTx.output)
FinalWitness(p) == At(p.inputs, 0).final_script_witness
Called(name) == op.name = name

\* C1 as stated: get_consumable_output fails with MultiUTXOUnsuported when the
\* skeleton has more than one output and is not a coinbase, and succeeds for every
\* other output count and coinbase flag (zero outputs, coinbase with three outputs)
C1_FailsOnlyOnManyNonCoinbaseOutputs ==
    Called("get_consumable_output") =>
        IF NumOutputs > 1 /\ ~is_coin_base(UnsignedTx)
          THEN ret = Err("MultiUTXOUnsuported")
          ELSE ret.ok

\* C1 amended: get_consumable_output succeeds exactly when the skeleton has one
\* output, or has two outputs and is a coinbase; for every other shape (zero
\* outputs, two outputs of a non-coinbase, three or more outputs) it fails with
\* MultiUTXOUnsuported, whatever the kind and whether finalized or not
C1_SucceedsExactlyOnSingleOutputShape ==
    Called("get_consumable_output") =>
        IF NumOutputs = 1 \/ (NumOutputs = 2 /\ is_coin_base(UnsignedTx))
          THEN ret.ok
          ELSE ret = Err("MultiUTXOUnsuported")

\* C1 witness: a coinbase skeleton with three outputs was asked and was refused
C1_Witness ==
    /\ Called("get_consumable_output")
    /\ NumOutputs = 3
    /\ is_coin_base(UnsignedTx)
    /\ ret = Err("MultiUTXOUnsuported")

\* C2 as stated: extract() hands back a transaction only after finalize() has
\* succeeded on the instance
C2_ExtractOnlyWhenFinalized ==
    Called("extract") /\ ret.ok => finalized

\* C3 as stated: once finalize() has succeeded, a further finalize() leaves the
\* witness data in the container as it was
C3_RefinalizeKeepsWitness ==
    [][finalized /\ op'.name = "finalize" => FinalWitness(psbt') = FinalWitness(psbt)]_vars

\* C4: no step of the instance (to_partial, finalize whether it succeeds or
\* fails, extract, get_consumable_output, a signature contribution) changes the
\* unsigned skeleton, nor therefore its txid
C4_SkeletonNeverChanges ==
    [][/\ psbt'.global.unsigned_tx = psbt.global.unsigned_tx
       /\ txid(psbt'.global.unsigned_tx) = txid(psbt.global.unsigned_tx)]_vars

\* C4 witness: the instance was finalized, and extract returned a transaction
\* carrying the witness
C4_Witness ==
    /\ Called("extract")
    /\ finalized
    /\ FinalWitness(psbt).some
    /\ At(ret.val.input, 0).witness = FinalWitness(psbt).val

\* C5 as stated: a successful get_consumable_output never carries an absent script
C5_NoSuccessWithoutScript ==
    Called("get_consumable_output") /\ ret.ok => ret.val.script_pubkey.some

\* C9: to_partial returns, in the Partial and in the Finalized state alike, a
\* present snapshot equal to the current container and leaves the instance as it
\* was; a snapshot already returned is not altered by a later finalize
C9_ToPartialSnapshots ==
    [][/\ op'.name = "to_partial" =>
            /\ ret'.some
            /\ ret'.val = psbt
            /\ snapshot' = ret'
            /\ psbt' = psbt
            /\ finalized' = finalized
       /\ op'.name = "finalize" => snapshot' = snapshot]_vars

\* C9 witness: a snapshot taken earlier differs from the container after a
\* finalize that succeeded and wrote a witness
C9_Witness ==
    /\ Called("finalize")
    /\ ret.ok
    /\ snapshot.some
    /\ ~FinalWitness(snapshot.val).some
    /\ FinalWitness(psbt).some

\* the record get_consumable_output is to return for container p
ExpectedOutput(p) ==
    [out_point |-> [txid |-> txid(p.global.unsigned_tx), vout |-> 0],
     tx_out |-> p.global.unsigned_tx.output[1],
     script_pubkey |-> p.outputs[1].witness_script]

\* C10: a successful get_consumable_output returns out-point (txid of the
\* skeleton, 0), the skeleton's output 0 and the witness script recorded against
\* output 0, also for the two-output coinbase shape; the call leaves the instance
\* as it was, and finalize does not change the record
C10_ReturnsFirstOutput ==
    /\ [](Called("get_consumable_output") /\ ret.ok => ret.val = ExpectedOutput(psbt))
    /\ [][/\ op'.name = "get_consumable_output" => psbt' = psbt /\ finalized' = finalized
          /\ op'.name = "finalize" /\ NumOutputs >= 1 =>
                ExpectedOutput(psbt') = ExpectedOutput(psbt)]_vars

\* C10 witness: the record was returned for a finalized two-output coinbase
C10_Witness ==
    /\ Called("get_consumable_output")
    /\ ret.ok
    /\ finalized
    /\ NumOutputs = 2
    /\ ret.val.tx_out = TxOut(0)

---------------------------------------------------------------------------
(* Properties of the input reference and sighash engine (checked under SpecSign) *)

HalfOrder == CurveOrder \div 2

\* C6: TxInRef::new constructs a reference only for index < input count and
\* aborts otherwise; every live reference is in range, input() returns
\* transaction.input[index], index() the index, and the reference keeps the index
\* it was constructed with
C6_TxInRefInRange ==
    /\ [](/\ txinref.some =>
                /\ txinref.val.index < Len(txinref.val.transaction.input)
                /\ txinref.val.transaction = transaction
          /\ Called("TxInRef::new") =>
                IF op.index < Len(transaction.input)
                  THEN /\ ~halted
                       /\ ret = Ok([transaction |-> transaction, index |-> op.index])
                       /\ txinref = Some(ret.val)
                  ELSE halted /\ ret = Abort
          /\ Called("input") =>
                ~halted /\ ret = Ok(transaction.input[txinref.val.index + 1])
          /\ Called("index") => ret = Ok(txinref.val.index))
    /\ [][op'.name # "TxInRef::new" => txinref' = txinref]_vars

\* C6 witness: input() was called on a reference to the second input
C6_Witness ==
    /\ Called("input")
    /\ txinref.some
    /\ txinref.val.index = 1
    /\ ret.ok

\* C7: whenever sign_input succeeds the returned signature has S at most half the
\* group order; a raw signature with high S comes back as its normalized
\* counterpart, one with low S comes back as it is
C7_SignInputLowS ==
    Called("sign_input") /\ ret.ok =>
        /\ ret.val.s >= 1
        /\ ret.val.s <= HalfOrder
        /\ ret.val.r = sigRaw.val.r
        /\ IF sigRaw.val.s > HalfOrder
             THEN ret.val.s = CurveOrder - sigRaw.val.s
             ELSE ret.val.s = sigRaw.val.s

\* C7 witness: the signer produced a high-S signature and sign_input returned
C7_Witness ==
    /\ Called("sign_input")
    /\ ret.ok
    /\ sigRaw.val.s > HalfOrder

\* C8: signature_hash returns the digest of its arguments, a different spent
\* value alone gives a different digest, and the call leaves the transaction and
\* the reference as they were
C8_SignatureHashBindsValue ==
    /\ [](Called("signature_hash") =>
            /\ ret = Ok(signature_hash(txinref.val, op.script, op.value, op.sighash_type))
            /\ \A v \in 0..MaxValue :
                 v # op.value =>
                    signature_hash(txinref.val, op.script, v, op.sighash_type) # ret.val)
    /\ [][op'.name = "signature_hash" =>
            transaction' = transaction /\ txinref' = txinref]_vars

\* C8 witness: a digest was computed for the second input with a non-zero value
C8_Witness ==
    /\ Called("signature_hash")
    /\ ret.ok
    /\ op.value = 1
    /\ txinref.val.index = 1

====
